---- MODULE Spec2Model ----
(***************************************************************************)
(* Model of the indexing pipeline of claude-indexer (src/src/indexer.py):  *)
(* the project's files, the persisted metadata store (metadata.json), the  *)
(* vector store (LanceDB table "chunks"), one Indexer object per run, the  *)
(* chunking workers of its process pool and the orchestrator's stages.     *)
(***************************************************************************)
EXTENDS Integers, Sequences, FiniteSets, Bags, TLC

\* ---------------------------------------------------------------- bounds
MaxRuns == 2    \* number of Indexer(...).index() runs explored
MaxEdits == 1   \* number of file-system changes made by the environment

\* ------------------------------------------------------------ input sets
Files == {"a.py", "b.py"}   \* relative paths of the project's code files
Edited == {"a.py"}          \* the files the environment rewrites (any file
                            \* may lose its read permission or be deleted)
Contents == 0 .. 3          \* file contents: 0 blank, 1 and 2 differ in text
                            \* only (equal size, equal chunk spans), 3 has
                            \* other chunk boundaries and another size
Times == {1, 2}               \* modification times (only compared for equality)

\* st_size of a file with content c
SizeOf(c) == CASE c = 0 -> 1 [] c = 1 -> 5 [] c = 2 -> 5 [] OTHER -> 6

\* chunk_file(): the (start_line, end_line) spans of the chunks that survive
\* the MIN_CHUNK_SIZE filter; a blank file has none
ChunksOf(c) ==
    CASE c = 0 -> {}
      [] c = 1 -> {<<1, 2>>, <<3, 4>>}
      [] c = 2 -> {<<1, 2>>, <<3, 4>>}
      [] OTHER -> {<<1, 4>>}

\* hashlib.new(HASH_ALGORITHM) digest of content c: distinct contents have
\* distinct digests and no digest is the empty string
Digest(c) == 100 + c
\* the "" that _compute_file_hash returns when the file cannot be read
EmptyHash == 0

\* a file of the project: [exists, content, mtime, readable]
FileState == [exists : BOOLEAN, content : Contents, mtime : Times, readable : BOOLEAN]

\* FileMetadata without its key: [mtime, size, hash]
EmptyMeta == [f \in {} |-> [mtime |-> 0, size |-> 0, hash |-> 0]]
NoRec == [mtime |-> 0, size |-> 0, hash |-> 0 - 1]

\* ------------------------------------------------- embedding cache inputs
MaxLen == 3                     \* longest batch handed to get_or_compute_batch
MaxLookups == 4                 \* lookups made on one cache object

Texts == {"t1", "t2"}           \* contents handed to the cache
Vectors == {1, 2}               \* embeddings (only compared for equality)
\* Python's None, which no embedding equals
None == 0

\* _hash_content: the md5 hex digest of the text; distinct texts of this
\* model have distinct digests
HashContent(x) == IF x = "t1" THEN "d1" ELSE "d2"

\* self.cache = {}
EmptyCache == [k \in {} |-> None]
\* the object after "self.cache = {}; self.hits = 0; self.misses = 0"
NewCache == [cache |-> EmptyCache, hits |-> 0, misses |-> 0]
\* no call made yet on the cache object
NoOp == [name |-> "none"]
\* nothing put and nothing loaded; put[x] is the vector of the latest put(x, v)
NoHist == [put |-> [x \in Texts |-> None], loaded |-> {}]

\* no search made since the last run began
NoSearch == [success |-> FALSE, error |-> "none", num_results |-> 0]

\* ------------------------------------------------------- chunker inputs
MaxLines == 4                   \* lines of a file with declarations
MaxBlock == 12                  \* lines of a file of plain text

\* config.py
CHUNK_SIZE == 1500
CHUNK_OVERLAP == 200
MIN_CHUNK_SIZE == 100

\* A file is its suffix and content.split("\n"): the sequence of its lines,
\* the last one "empty" when the content ends with a newline. The lines:
\*   class  "class A {  <comment>"    def    "def f():  <comment>"
\*   mdef   "    def m(self):  ..."   body   "    return 1  <comment>"
\*   long   a body line of 1600 characters
\*   inner  a line of a method's body, 1600 characters, indented twice
\*   fat    an unindented statement of 200 characters
\*   func   "function f() {  ..."     arrow  "const f = (a) => a;  ..."
\*   close  "}"                       end    "end"
\*   empty  ""
Exts == {"py", "js", "rb", "go"}
Alphabet(ext) ==
    CASE ext = "py" -> {"class", "def", "mdef", "body", "long", "inner", "fat", "empty"}
      [] ext = "js" -> {"class", "func", "arrow", "close", "body", "long", "empty"}
      [] ext = "rb" -> {"class", "mdef", "end", "body", "empty"}
      [] OTHER -> {"fat", "long", "empty"}

\* len(line)
Width(k) ==
    CASE k = "empty" -> 0 [] k = "close" -> 1 [] k = "end" -> 3
      [] k \in {"long", "inner"} -> 1600 [] k = "fat" -> 200 [] OTHER -> 60
\* len(line) - len(line.lstrip())
Indent(k) == CASE k \in {"mdef", "body", "long"} -> 4 [] k = "inner" -> 8 [] OTHER -> 0

NoSource == [ext |-> "none", lines |-> <<>>, readable |-> FALSE]
NotChunked == [done |-> FALSE, raised |-> FALSE, chunks |-> {}, iters |-> 0]

VARIABLES
    fs,             \* the project tree: path -> FileState
    edits,          \* environment changes made so far
    metaDisk,       \* metadata.json: [kind : missing | corrupt | ok, data]
    table,          \* LanceDB: [exists, rows : bag of rows]
    pc,             \* stage of the current run
    runs,           \* runs started so far
    force,          \* Indexer.force
    file_metadata,  \* Indexer.file_metadata
    stats,          \* Indexer.stats
    all_files,      \* index(): all_files
    wk,             \* per file: the future of _process_file and its worker
    all_chunks,     \* index(): all_chunks
    new_metadata,   \* index(): new_metadata
    start,          \* what the stores held when the run began
    io,             \* which collaborators the run has called:
                    \* [embedder, store : BOOLEAN, meta : outcome of the save]
    indexed,        \* per file: the content whose chunks were stored last
    search,         \* outcome of the last search since the last run began
    cacheDisk,      \* the cache file: [kind : missing | corrupt | ok, data]
    ec,             \* an EmbeddingCache object: [cache, hits, misses]
    op,             \* the last call made on ec, with its arguments and result
    hist,           \* what was put on ec and what it loaded when constructed
    src,            \* the file handed to chunk_file: [ext, lines, readable]
    out             \* what chunk_file returned for src

\* the state of an indexing run and of the stores it works on
runVars == <<fs, edits, metaDisk, table, pc, runs, force, file_metadata, stats,
             all_files, wk, all_chunks, new_metadata, start, io, indexed>>
\* the embedding cache and the chunker, which no stage of index() touches
libVars == <<cacheDisk, ec, op, hist, src, out>>

vars == <<runVars, search, libVars>>

\* ------------------------------------------------------- change tracker
\* _compute_file_hash
ComputeFileHash(file) ==
    IF file.exists /\ file.readable THEN Digest(file.content) ELSE EmptyHash

\* _has_file_changed with incremental indexing switched off by mistake
HasFileChanged_Always(frc, fm, f, file) == "True"

\* _has_file_changed with the result of the force test inverted
HasFileChanged_ForceInverted(frc, fm, f, file) ==
    IF frc THEN "False"
    ELSE IF f \notin DOMAIN fm THEN "True"
    ELSE IF ~file.exists THEN "raise"
    ELSE IF file.mtime # fm[f].mtime \/ SizeOf(file.content) # fm[f].size THEN "True"
    ELSE IF ComputeFileHash(file) # fm[f].hash THEN "True" ELSE "False"

\* _has_file_changed without the mtime comparison
HasFileChanged_NoMtime(frc, fm, f, file) ==
    IF frc THEN "True"
    ELSE IF f \notin DOMAIN fm THEN "True"
    ELSE IF ~file.exists THEN "raise"
    ELSE IF SizeOf(file.content) # fm[f].size THEN "True"
    ELSE IF ComputeFileHash(file) # fm[f].hash THEN "True" ELSE "False"

\* _has_file_changed trusting mtime and size, without the hash comparison
HasFileChanged_NoHash(frc, fm, f, file) ==
    IF frc THEN "True"
    ELSE IF f \notin DOMAIN fm THEN "True"
    ELSE IF ~file.exists THEN "raise"
    ELSE IF file.mtime # fm[f].mtime \/ SizeOf(file.content) # fm[f].size THEN "True"
    ELSE "False"

\* _has_file_changed: "True", "False", or "raise" when stat() fails
HasFileChanged(frc, fm, f, file) ==
    IF frc THEN "True"
    ELSE IF f \notin DOMAIN fm THEN "True"
    ELSE IF ~file.exists THEN "raise"
    ELSE IF file.mtime # fm[f].mtime \/ SizeOf(file.content) # fm[f].size THEN "True"
    ELSE IF ComputeFileHash(file) # fm[f].hash THEN "True" ELSE "False"

\* a change check that hashes the file when its mtime or size differs
HashesFile_WhenStatDiffers(frc, fm, f, file) ==
    /\ ~frc
    /\ f \in DOMAIN fm
    /\ file.exists
    /\ file.mtime # fm[f].mtime \/ SizeOf(file.content) # fm[f].size
\* _has_file_changed reaches its call of _compute_file_hash, line 123
HashesFile(frc, fm, f, file) ==
    /\ ~frc
    /\ f \in DOMAIN fm
    /\ file.exists
    /\ ~(file.mtime # fm[f].mtime \/ SizeOf(file.content) # fm[f].size)

\* _load_metadata: a file that does not parse gives an empty map
LoadMetadata(disk) == IF disk.kind = "ok" THEN disk.data ELSE EmptyMeta

\* Indexer.__init__: the map the new Indexer starts with
InitialMetadata(frc, disk) ==
    IF ~frc /\ disk.kind # "missing" THEN LoadMetadata(disk) ELSE EmptyMeta

\* dict.update
Update(fm, nm) ==
    [f \in (DOMAIN fm) \cup (DOMAIN nm) |-> IF f \in DOMAIN nm THEN nm[f] ELSE fm[f]]

\* _find_code_files: is_code_file needs stat() to succeed
FindCodeFiles == {f \in Files : fs[f].exists}

ZeroStats == [files_scanned |-> 0, files_indexed |-> 0, files_skipped |-> 0,
              files_unchanged |-> 0, chunks_created |-> 0]

NoFile == [exists |-> FALSE, content |-> 0, mtime |-> 1, readable |-> FALSE]

\* a future of executor.submit(self._process_file, file_path) and its worker:
\*   st   none | queued | changed | chunked | returned | consumed
\*   cls  what _has_file_changed gave: none | True | False | raise
\*   rec  the worker's copy of self.file_metadata[path] (NoRec: no record)
\*   obs  the file as _has_file_changed saw it
\*   rd   the content chunk_file read
\*   res  the future's result: none | indexed (chunks, metadata)
\*        | nothing (None, None) | raised
\*   meta the FileMetadata built at lines 162-169
\*   err  an exception was caught while the file was processed
\*   hashed  _has_file_changed called _compute_file_hash
NoWorker == [st |-> "none", cls |-> "none", rec |-> NoRec, obs |-> NoFile,
             rd |-> 0, res |-> "none", meta |-> NoRec, err |-> FALSE,
             hashed |-> FALSE]

\* a project with two code files, no vector table and metadata file disk,
\* before any Indexer is constructed
RunInitOver(disk) ==
    /\ fs = [f \in Files |-> [exists |-> TRUE, content |-> 1, mtime |-> 1, readable |-> TRUE]]
    /\ edits = 0
    /\ metaDisk = disk
    /\ table = [exists |-> FALSE, rows |-> EmptyBag]
    /\ pc = "idle"
    /\ runs = 0
    /\ force = FALSE
    /\ file_metadata = EmptyMeta
    /\ stats = ZeroStats
    /\ all_files = {}
    /\ wk = [f \in Files |-> NoWorker]
    /\ all_chunks = {}
    /\ new_metadata = EmptyMeta
    /\ start = [table |-> [exists |-> FALSE, rows |-> EmptyBag], meta |-> disk]
    /\ io = [embedder |-> FALSE, store |-> FALSE, meta |-> "none"]
    /\ indexed = [f \in Files |-> 0 - 1]
    /\ search = NoSearch

\* a project that has never been indexed
RunInit == RunInitOver([kind |-> "missing", data |-> EmptyMeta])

\* no cache file, an empty cache object and no file handed to the chunker
LibInit ==
    /\ cacheDisk = [kind |-> "missing", data |-> EmptyCache]
    /\ ec = NewCache
    /\ op = NoOp
    /\ hist = NoHist
    /\ src = NoSource
    /\ out = NotChunked

Init == RunInit /\ LibInit

\* Indexer(project_path, force).index() up to the submission of the futures
StartRun(frc) ==
    /\ pc \in {"idle", "done", "failed"}
    /\ runs < MaxRuns
    /\ runs' = runs + 1
    /\ force' = frc
    /\ file_metadata' = InitialMetadata(frc, metaDisk)
    /\ all_files' = FindCodeFiles
    /\ stats' = [ZeroStats EXCEPT !.files_scanned = Cardinality(FindCodeFiles)]
    /\ all_chunks' = {}
    /\ new_metadata' = EmptyMeta
    /\ wk' = [f \in Files |-> IF f \in FindCodeFiles
                              THEN [NoWorker EXCEPT !.st = "queued"] ELSE NoWorker]
    /\ pc' = IF FindCodeFiles = {} THEN "done" ELSE "chunking"
    /\ start' = [table |-> table, meta |-> metaDisk]
    /\ io' = [embedder |-> FALSE, store |-> FALSE, meta |-> "none"]
    /\ search' = NoSearch
    /\ UNCHANGED libVars
    /\ UNCHANGED <<fs, edits, metaDisk, table, indexed>>

\* ------------------------------------------------------ chunking workers
\* _process_file, lines 150-153: the change check
WorkerClassify(f) ==
    /\ pc = "chunking"
    /\ wk[f].st = "queued"
    /\ LET r == HasFileChanged(force, file_metadata, f, fs[f])
           w == [wk[f] EXCEPT !.cls = r, !.obs = fs[f],
                              !.hashed = HashesFile(force, file_metadata, f, fs[f]),
                              !.rec = IF f \in DOMAIN file_metadata
                                      THEN file_metadata[f] ELSE NoRec]
       IN wk' = [wk EXCEPT ![f] =
                   IF r = "True" THEN [w EXCEPT !.st = "changed"]
                   ELSE [w EXCEPT !.st = "returned", !.res = "nothing",
                                  !.err = (r = "raise")]]
    /\ UNCHANGED <<search, libVars>>
    /\ UNCHANGED <<fs, edits, metaDisk, table, pc, runs, force, file_metadata,
                   stats, all_files, all_chunks, new_metadata, start, io, indexed>>

\* chunk_file: what one read of the file yields ([] when it cannot be read)
ChunkFile(file) ==
    IF file.exists /\ file.readable THEN ChunksOf(file.content) ELSE {}

\* _process_file, lines 155-159: chunk the file
WorkerChunk(f) ==
    /\ pc = "chunking"
    /\ wk[f].st = "changed"
    /\ wk' = [wk EXCEPT ![f] =
                IF ChunkFile(fs[f]) = {}
                THEN [@ EXCEPT !.st = "returned", !.res = "nothing",
                               !.err = ~(fs[f].exists /\ fs[f].readable)]
                ELSE [@ EXCEPT !.st = "chunked", !.rd = fs[f].content]]
    /\ UNCHANGED <<search, libVars>>
    /\ UNCHANGED <<fs, edits, metaDisk, table, pc, runs, force, file_metadata,
                   stats, all_files, all_chunks, new_metadata, start, io, indexed>>

\* the FileMetadata of lines 162-169 (stat, then hash)
MakeMetadata(file) ==
    [mtime |-> file.mtime, size |-> SizeOf(file.content), hash |-> ComputeFileHash(file)]

\* _process_file, lines 161-176: build the metadata; stat() of a deleted file
\* raises and the except clause returns (None, None)
WorkerRecord(f) ==
    /\ pc = "chunking"
    /\ wk[f].st = "chunked"
    /\ wk' = [wk EXCEPT ![f] =
                IF ~fs[f].exists
                THEN [@ EXCEPT !.st = "returned", !.res = "nothing", !.err = TRUE]
                ELSE [@ EXCEPT !.st = "returned", !.res = "indexed",
                               !.meta = MakeMetadata(fs[f])]]
    /\ UNCHANGED <<search, libVars>>
    /\ UNCHANGED <<fs, edits, metaDisk, table, pc, runs, force, file_metadata,
                   stats, all_files, all_chunks, new_metadata, start, io, indexed>>

\* a worker process dies: every future that has no result yet raises
\* BrokenProcessPool from future.result()
PoolBroken ==
    /\ pc = "chunking"
    /\ \E f \in all_files : wk[f].st \in {"queued", "changed", "chunked"}
    /\ wk' = [f \in Files |->
                IF wk[f].st \in {"queued", "changed", "chunked"}
                THEN [wk[f] EXCEPT !.st = "returned", !.res = "raised"]
                ELSE wk[f]]
    /\ UNCHANGED <<search, libVars>>
    /\ UNCHANGED <<fs, edits, metaDisk, table, pc, runs, force, file_metadata,
                   stats, all_files, all_chunks, new_metadata, start, io, indexed>>

\* ---------------------------------------------------------- orchestrator
\* the rows of the chunks of file f read from content c
RowsOf(f, c) == {[file |-> f, span |-> s, ver |-> c] : s \in ChunksOf(c)}

\* the loop body without the counting of the except clause, lines 230-233
CountResult_RaisedUncounted(st, res) ==
    IF res = "indexed" THEN [st EXCEPT !.files_indexed = @ + 1]
    ELSE IF res = "nothing" THEN [st EXCEPT !.files_unchanged = @ + 1]
    ELSE st

\* the stats after one future's result, lines 219-234
CountResult(st, res) ==
    IF res = "indexed" THEN [st EXCEPT !.files_indexed = @ + 1]
    ELSE IF res = "nothing" THEN [st EXCEPT !.files_unchanged = @ + 1]
    ELSE [st EXCEPT !.files_skipped = @ + 1]

\* the loop body with "all_chunks = chunks" for "all_chunks.extend(chunks)"
Aggregate_Overwrite(f) ==
    /\ pc = "chunking"
    /\ wk[f].st = "returned"
    /\ wk' = [wk EXCEPT ![f].st = "consumed"]
    /\ stats' = CountResult(stats, wk[f].res)
    /\ IF wk[f].res = "indexed"
       THEN /\ all_chunks' = RowsOf(f, wk[f].rd)
            /\ new_metadata' = Update(new_metadata, [g \in {f} |-> wk[f].meta])
       ELSE UNCHANGED <<all_chunks, new_metadata>>
    /\ UNCHANGED <<search, libVars>>
    /\ UNCHANGED <<fs, edits, metaDisk, table, pc, runs, force, file_metadata,
                   all_files, start, io, indexed>>

\* one iteration of "for future in as_completed(futures)", lines 217-236
Aggregate(f) ==
    /\ pc = "chunking"
    /\ wk[f].st = "returned"
    /\ wk' = [wk EXCEPT ![f].st = "consumed"]
    /\ stats' = CountResult(stats, wk[f].res)
    /\ IF wk[f].res = "indexed"
       THEN /\ all_chunks' = all_chunks \cup RowsOf(f, wk[f].rd)
            /\ new_metadata' = Update(new_metadata, [g \in {f} |-> wk[f].meta])
       ELSE UNCHANGED <<all_chunks, new_metadata>>
    /\ UNCHANGED <<search, libVars>>
    /\ UNCHANGED <<fs, edits, metaDisk, table, pc, runs, force, file_metadata,
                   all_files, start, io, indexed>>

\* lines 259-264 without the early return
FinishChunking_NoEarlyReturn ==
    /\ pc = "chunking"
    /\ \A f \in all_files : wk[f].st = "consumed"
    /\ stats' = [stats EXCEPT !.chunks_created = Cardinality(all_chunks)]
    /\ pc' = "embedding"
    /\ UNCHANGED <<search, libVars>>
    /\ UNCHANGED <<fs, edits, metaDisk, table, runs, force, file_metadata,
                   all_files, wk, all_chunks, new_metadata, start, io, indexed>>

\* lines 259-264: all futures consumed; stop here when there are no chunks
FinishChunking ==
    /\ pc = "chunking"
    /\ \A f \in all_files : wk[f].st = "consumed"
    /\ stats' = [stats EXCEPT !.chunks_created = Cardinality(all_chunks)]
    /\ pc' = IF all_chunks = {} THEN "done" ELSE "embedding"
    /\ UNCHANGED <<search, libVars>>
    /\ UNCHANGED <<fs, edits, metaDisk, table, runs, force, file_metadata,
                   all_files, wk, all_chunks, new_metadata, start, io, indexed>>

\* lines 269-272: _generate_embeddings; ok = FALSE when the embedder raises
Embedding(ok) ==
    /\ pc = "embedding"
    /\ io' = [io EXCEPT !.embedder = TRUE]
    /\ pc' = IF ok THEN "storing" ELSE "failed"
    /\ UNCHANGED <<search, libVars>>
    /\ UNCHANGED <<fs, edits, metaDisk, table, runs, force, file_metadata, stats,
                   all_files, wk, all_chunks, new_metadata, start, indexed>>

\* _store_in_db, lines 331-353: append to the table when it exists and the
\* run is not forced, otherwise create it with mode="overwrite"
StoreInDb(tbl, frc, chunks) ==
    IF tbl.exists /\ ~frc
    THEN [exists |-> TRUE, rows |-> tbl.rows (+) SetToBag(chunks)]
    ELSE [exists |-> TRUE, rows |-> SetToBag(chunks)]

\* _save_metadata: the file after the attempt. open(.., "w") may fail (file
\* untouched) or json.dump may fail after the file was truncated; either
\* exception is swallowed with a warning
SaveMetadata(disk, fm, outcome) ==
    CASE outcome = "ok" -> [kind |-> "ok", data |-> fm]
      [] outcome = "open_fails" -> disk
      [] OTHER -> [kind |-> "corrupt", data |-> EmptyMeta]

SaveOutcomes == {"ok", "open_fails", "dump_fails"}

\* lines 278-284 with the metadata commit moved before the table write
Storing_CommitFirst(ok) ==
    /\ pc = "storing"
    /\ io' = [io EXCEPT !.store = TRUE]
    /\ file_metadata' = Update(file_metadata, new_metadata)
    /\ metaDisk' = SaveMetadata(metaDisk, Update(file_metadata, new_metadata), "ok")
    /\ table' = IF ok THEN StoreInDb(table, force, all_chunks) ELSE table
    /\ pc' = IF ok THEN "committing" ELSE "failed"
    /\ indexed' = IF ok THEN [f \in Files |-> IF \E r \in all_chunks : r.file = f
                                              THEN wk[f].rd ELSE indexed[f]]
                  ELSE indexed
    /\ UNCHANGED <<search, libVars>>
    /\ UNCHANGED <<fs, edits, runs, force, stats, all_files, wk, all_chunks,
                   new_metadata, start>>

\* lines 278-280; ok = FALSE when the vector store raises (nothing written)
Storing(ok) ==
    /\ pc = "storing"
    /\ io' = [io EXCEPT !.store = TRUE]
    /\ table' = IF ok THEN StoreInDb(table, force, all_chunks) ELSE table
    /\ pc' = IF ok THEN "committing" ELSE "failed"
    /\ indexed' = IF ok THEN [f \in Files |-> IF \E r \in all_chunks : r.file = f
                                              THEN wk[f].rd ELSE indexed[f]]
                  ELSE indexed
    /\ UNCHANGED <<search, libVars>>
    /\ UNCHANGED <<fs, edits, metaDisk, runs, force, file_metadata, stats,
                   all_files, wk, all_chunks, new_metadata, start>>

\* lines 282-289: merge the run's records and rewrite metadata.json
Committing(outcome) ==
    /\ pc = "committing"
    /\ file_metadata' = Update(file_metadata, new_metadata)
    /\ metaDisk' = SaveMetadata(metaDisk, Update(file_metadata, new_metadata), outcome)
    /\ io' = [io EXCEPT !.meta = outcome]
    /\ pc' = "done"
    /\ UNCHANGED <<search, libVars>>
    /\ UNCHANGED <<fs, edits, table, runs, force, stats, all_files, wk,
                   all_chunks, new_metadata, start, indexed>>

\* ----------------------------------------------------------- environment
\* The project tree changes between runs and while the workers run. A run
\* reads file f only in the scan and in f's worker, so a change of f made
\* after f's worker returned is the same change made after the run, and a
\* change after the last run explored is seen by no run.
EnvEnabled(f) ==
    /\ edits < MaxEdits
    /\ \/ pc \in {"idle", "done", "failed"} /\ runs < MaxRuns
       \/ pc = "chunking" /\ wk[f].st \in {"queued", "changed", "chunked"}

\* an editor (or a checkout) writes file f: new content, any mtime
WriteFile(f, c, t) ==
    /\ EnvEnabled(f)
    /\ ~(fs[f].exists /\ fs[f].content = c /\ fs[f].mtime = t)
    /\ fs' = [fs EXCEPT ![f] = [exists |-> TRUE, content |-> c, mtime |-> t,
                                readable |-> IF @.exists THEN @.readable ELSE TRUE]]
    /\ edits' = edits + 1
    /\ UNCHANGED <<search, libVars>>
    /\ UNCHANGED <<metaDisk, table, pc, runs, force, file_metadata, stats,
                   all_files, wk, all_chunks, new_metadata, start, io, indexed>>

\* chmod: the read permission of f flips; the mtime stays
Chmod(f) ==
    /\ EnvEnabled(f)
    /\ fs[f].exists
    /\ fs' = [fs EXCEPT ![f].readable = ~@]
    /\ edits' = edits + 1
    /\ UNCHANGED <<search, libVars>>
    /\ UNCHANGED <<metaDisk, table, pc, runs, force, file_metadata, stats,
                   all_files, wk, all_chunks, new_metadata, start, io, indexed>>

\* f is removed from the project
DeleteFile(f) ==
    /\ EnvEnabled(f)
    /\ fs[f].exists
    /\ fs' = [fs EXCEPT ![f].exists = FALSE]
    /\ edits' = edits + 1
    /\ UNCHANGED <<search, libVars>>
    /\ UNCHANGED <<metaDisk, table, pc, runs, force, file_metadata, stats,
                   all_files, wk, all_chunks, new_metadata, start, io, indexed>>

\* shutil.rmtree(get_index_path(project)) between two runs: the table and
\* metadata.json are gone and what the last run reported is stale
RemoveIndex ==
    /\ edits < MaxEdits
    /\ pc \in {"done", "failed"}
    /\ table.exists \/ metaDisk.kind # "missing"
    /\ edits' = edits + 1
    /\ table' = [exists |-> FALSE, rows |-> EmptyBag]
    /\ metaDisk' = [kind |-> "missing", data |-> EmptyMeta]
    /\ indexed' = [f \in Files |-> 0 - 1]
    /\ pc' = "idle"
    /\ search' = NoSearch
    /\ UNCHANGED libVars
    /\ UNCHANGED <<fs, runs, force, file_metadata, stats, all_files, wk,
                   all_chunks, new_metadata, start, io>>

\* ----------------------------------------------------------------- search
\* Searcher.__init__ that goes on to open the table without the check
SearcherInit_NoCheck(tbl) == "ok"

\* Searcher.__init__, search.py lines 40-53: chunks.lance exists once the
\* table was created
SearcherInit(tbl) == IF tbl.exists THEN "ok" ELSE "FileNotFoundError"

\* search_code, server.py lines 60-95: the JSON answer for a query
SearchCode(tbl) ==
    IF SearcherInit(tbl) = "FileNotFoundError"
    THEN [success |-> FALSE, error |-> "no_index", num_results |-> 0]
    ELSE [success |-> TRUE, error |-> "none",
          num_results |-> IF tbl.rows = EmptyBag THEN 0 ELSE 1]

\* a search_code call between two runs
Search ==
    /\ pc \in {"idle", "done", "failed"}
    /\ search' = SearchCode(table)
    /\ UNCHANGED <<runVars, libVars>>

Next ==
    \/ Search
    \/ \E frc \in BOOLEAN : StartRun(frc)
    \/ \E f \in Files : WorkerClassify(f)
    \/ \E f \in Files : WorkerChunk(f)
    \/ \E f \in Files : WorkerRecord(f)
    \/ PoolBroken
    \/ \E f \in Files : Aggregate(f)
    \/ FinishChunking
    \/ \E ok \in BOOLEAN : Embedding(ok)
    \/ \E ok \in BOOLEAN : Storing(ok)
    \/ \E o \in SaveOutcomes : Committing(o)
    \/ \E f \in Edited, c \in Contents, t \in Times : WriteFile(f, c, t)
    \/ \E f \in Files : Chmod(f)
    \/ \E f \in Files : DeleteFile(f)
    \/ RemoveIndex

Spec == Init /\ [][Next]_vars

\* --------------------------------------------------------- embedding cache
\* get that forgets "self.misses += 1"
CacheGet_MissUncounted(c, x) ==
    IF HashContent(x) \in DOMAIN c.cache
    THEN [ec |-> [c EXCEPT !.hits = @ + 1], ret |-> c.cache[HashContent(x)]]
    ELSE [ec |-> c, ret |-> None]

\* get, lines 62-79: the object after the lookup and what the call returns
CacheGet(c, x) ==
    IF HashContent(x) \in DOMAIN c.cache
    THEN [ec |-> [c EXCEPT !.hits = @ + 1], ret |-> c.cache[HashContent(x)]]
    ELSE [ec |-> [c EXCEPT !.misses = @ + 1], ret |-> None]

\* put written as self.cache.setdefault(content_hash, embedding)
CachePut_KeepFirst(c, x, v) == [c EXCEPT !.cache = @ @@ (HashContent(x) :> v)]

\* put, lines 81-90: self.cache[content_hash] = embedding
CachePut(c, x, v) == [c EXCEPT !.cache = (HashContent(x) :> v) @@ @]

\* the [] that stands in the result list for a content not found, line 112
Placeholder == 0 - 1

\* list.index: the first position of v in seq
IndexOf(seq, v) ==
    CHOOSE i \in 1 .. Len(seq) : seq[i] = v /\ \A j \in 1 .. (i - 1) : seq[j] # v

\* the first loop with the result of the lookup ignored: every content is
\* handed to compute_fn
RECURSIVE Lookups_AllMissing(_, _, _)
Lookups_AllMissing(c, contents, n) ==
    IF n = 0
    THEN [ec |-> c, embeddings |-> <<>>,
          missing_indices |-> <<>>, missing_contents |-> <<>>]
    ELSE LET p == Lookups_AllMissing(c, contents, n - 1)
             g == CacheGet(p.ec, contents[n])
         IN [ec |-> g.ec,
             embeddings |-> Append(p.embeddings, Placeholder),
             missing_indices |-> Append(p.missing_indices, n),
             missing_contents |-> Append(p.missing_contents, contents[n])]

\* the first loop of get_or_compute_batch, lines 107-114, after contents[1..n]
RECURSIVE Lookups(_, _, _)
Lookups(c, contents, n) ==
    IF n = 0
    THEN [ec |-> c, embeddings |-> <<>>,
          missing_indices |-> <<>>, missing_contents |-> <<>>]
    ELSE LET p == Lookups(c, contents, n - 1)
             g == CacheGet(p.ec, contents[n])
         IN IF g.ret # None
            THEN [p EXCEPT !.ec = g.ec, !.embeddings = Append(@, g.ret)]
            ELSE [ec |-> g.ec,
                  embeddings |-> Append(p.embeddings, Placeholder),
                  missing_indices |-> Append(p.missing_indices, n),
                  missing_contents |-> Append(p.missing_contents, contents[n])]

\* the second loop, lines 120-127, after the first k pairs of
\* zip(missing_indices, new_embeddings)
RECURSIVE StorePairs(_, _, _)
StorePairs(st, new_embeddings, k) ==
    IF k = 0 THEN st
    ELSE LET p == StorePairs(st, new_embeddings, k - 1)
             idx == st.missing_indices[k]
             content == st.missing_contents[IndexOf(st.missing_indices, idx)]
         IN [p EXCEPT !.embeddings[idx] = new_embeddings[k],
                      !.ec = CachePut(@, content, new_embeddings[k])]

\* get_or_compute_batch, lines 92-129. answer is what compute_fn does when it
\* is called: it raises, or returns the list answer.vecs. zip(strict=True)
\* raises ValueError after the pairs it could form when the lengths differ.
\*   calls   the argument lists compute_fn was called with
\*   stored  the pairs put in the cache
GetOrComputeBatch(c, contents, answer) ==
    LET st == Lookups(c, contents, Len(contents))
        m == Len(st.missing_contents)
        k == IF answer.raises THEN 0
             ELSE IF Len(answer.vecs) < m THEN Len(answer.vecs) ELSE m
        fin == StorePairs(st, answer.vecs, k)
    IN IF m = 0
       THEN [ec |-> st.ec, calls |-> <<>>, stored |-> 0, raised |-> FALSE,
             ret |-> <<st.embeddings, st.ec.hits, st.ec.misses>>]
       ELSE IF answer.raises \/ Len(answer.vecs) # m
       THEN [ec |-> fin.ec, calls |-> <<st.missing_contents>>, stored |-> k,
             raised |-> TRUE, ret |-> <<>>]
       ELSE [ec |-> fin.ec, calls |-> <<st.missing_contents>>, stored |-> k,
             raised |-> FALSE,
             ret |-> <<fin.embeddings, fin.ec.hits, fin.ec.misses>>]

\* _load without its try/except: the exception of open() or pickle.load()
\* leaves the constructor
LoadCache_Uncaught(disk) ==
    IF disk.kind = "ok" THEN [cache |-> disk.data, raised |-> FALSE]
    ELSE [cache |-> EmptyCache, raised |-> disk.kind # "missing"]

\* _load, lines 32-45: the mapping a new object starts with; any exception
\* of open() or pickle.load() is caught and leaves {}
LoadCache(disk) ==
    IF disk.kind = "ok" THEN [cache |-> disk.data, raised |-> FALSE]
    ELSE [cache |-> EmptyCache, raised |-> FALSE]

\* save, lines 47-60: the cache file after the attempt; mkdir or open may
\* fail (file untouched) or pickle.dump may fail after the file was
\* truncated; the exception is swallowed with a warning
SaveCache(disk, c, outcome) ==
    CASE outcome = "ok" -> [kind |-> "ok", data |-> c.cache]
      [] outcome = "open_fails" -> disk
      [] OTHER -> [kind |-> "corrupt", data |-> EmptyCache]

\* the sequences over S of length at most n
SeqsUpTo(S, n) == UNION {[1 .. k -> S] : k \in 0 .. n}

\* what a compute function may do with the list it is given
Answers ==
    {[raises |-> TRUE, vecs |-> <<>>]}
        \cup {[raises |-> FALSE, vecs |-> v] : v \in SeqsUpTo(Vectors, MaxLen)}

\* cache.get(x)
Get(x) ==
    /\ ec.hits + ec.misses < MaxLookups
    /\ ec' = CacheGet(ec, x).ec
    /\ op' = [name |-> "get", before |-> ec, content |-> x,
              ret |-> CacheGet(ec, x).ret]
    /\ UNCHANGED <<cacheDisk, hist, src, out, search, runVars>>

\* cache.put(x, v)
Put(x, v) ==
    /\ ec' = CachePut(ec, x, v)
    /\ op' = [name |-> "put", before |-> ec, content |-> x, vec |-> v]
    /\ hist' = [hist EXCEPT !.put[x] = v]
    /\ UNCHANGED <<cacheDisk, src, out, search, runVars>>

\* the answers told apart: none when compute_fn is not called; otherwise it
\* raises or returns as many vectors as it was given contents, one fewer or
\* one more
Told(c, contents, answer) ==
    LET m == Len(Lookups(c, contents, Len(contents)).missing_contents)
    IN IF m = 0 THEN answer = [raises |-> FALSE, vecs |-> <<>>]
       ELSE answer.raises
              \/ (Len(answer.vecs) >= m - 1 /\ Len(answer.vecs) <= m + 1)

\* cache.get_or_compute_batch(contents, compute_fn)
Batch(contents, answer) ==
    /\ ec.hits + ec.misses + Len(contents) <= MaxLookups
    /\ Told(ec, contents, answer)
    /\ LET r == GetOrComputeBatch(ec, contents, answer)
           sent == IF r.calls = <<>> THEN <<>> ELSE r.calls[1]
           last(x) == {i \in 1 .. r.stored : sent[i] = x}
       IN /\ ec' = r.ec
          /\ op' = [name |-> "batch", before |-> ec, contents |-> contents,
                    answer |-> answer, calls |-> r.calls, raised |-> r.raised,
                    ret |-> r.ret]
          /\ hist' = [hist EXCEPT !.put = [x \in Texts |->
                        IF last(x) = {} THEN @[x]
                        ELSE answer.vecs[CHOOSE i \in last(x) :
                                            \A j \in last(x) : j <= i]]]
    /\ UNCHANGED <<cacheDisk, src, out, search, runVars>>

\* cache.clear(), lines 160-167
Clear ==
    /\ ec' = NewCache
    /\ cacheDisk' = [kind |-> "missing", data |-> EmptyCache]
    /\ op' = [name |-> "clear", before |-> ec]
    /\ hist' = NoHist
    /\ UNCHANGED <<src, out, search, runVars>>

\* cache.save() on an object that was constructed
Save(outcome) ==
    /\ op.name # "none"
    /\ cacheDisk' = SaveCache(cacheDisk, ec, outcome)
    /\ op' = [name |-> "save", before |-> ec, outcome |-> outcome]
    /\ UNCHANGED <<ec, hist, src, out, search, runVars>>

\* EmbeddingCache(cache_path), lines 20-30: a new object over the cache file
Reopen ==
    /\ ec' = [NewCache EXCEPT !.cache = LoadCache(cacheDisk).cache]
    /\ op' = [name |-> "init", before |-> ec,
              raised |-> LoadCache(cacheDisk).raised]
    /\ hist' = [NoHist EXCEPT !.loaded = DOMAIN LoadCache(cacheDisk).cache]
    /\ UNCHANGED <<cacheDisk, src, out, search, runVars>>

CacheNext ==
    \/ \E x \in Texts : Get(x)
    \/ \E x \in Texts, v \in Vectors : Put(x, v)
    \/ \E contents \in SeqsUpTo(Texts, MaxLen), answer \in Answers :
           Batch(contents, answer)
    \/ Clear

CacheSpec == Init /\ [][CacheNext]_vars

\* ---------------------------------------------------------------- chunker
\* the offset in the content of the first character of line i
RECURSIVE Offset(_, _)
Offset(lines, i) ==
    IF i = 1 THEN 0 ELSE Offset(lines, i - 1) + Width(lines[i - 1]) + 1

\* len(content)
ContentLen(lines) == Offset(lines, Len(lines)) + Width(lines[Len(lines)])

\* content[:pos].count("\n") + 1: the line that holds offset pos
LineAt(lines, pos) ==
    CHOOSE i \in 1 .. Len(lines) :
        /\ Offset(lines, i) <= pos
        /\ i = Len(lines) \/ Offset(lines, i + 1) > pos

\* the lines of a .. b that are not blank
TextLines(lines, a, b) == {j \in a .. b : lines[j] # "empty"}
Lowest(S) == CHOOSE x \in S : \A y \in S : x <= y
Highest(S) == CHOOSE x \in S : \A y \in S : y <= x

\* len(content[start of line a : end of line b].rstrip())
RstripLen(lines, a, b) ==
    IF TextLines(lines, a, b) = {} THEN 0
    ELSE LET l == Highest(TextLines(lines, a, b))
         IN Offset(lines, l) + Width(lines[l]) - Offset(lines, a)

\* len(content[start of line a : end of line b].strip())
StripLen(lines, a, b) ==
    IF TextLines(lines, a, b) = {} THEN 0
    ELSE LET f == Lowest(TextLines(lines, a, b))
             l == Highest(TextLines(lines, a, b))
         IN Offset(lines, l) + Width(lines[l]) - Offset(lines, f) - Indent(lines[f])

\* a CodeChunk: its line range and type, len(content) and len(content.strip())
Chunk(a, b, type, size, text) ==
    [start_line |-> a, end_line |-> b, chunk_type |-> type, size |-> size, text |-> text]

\* _chunk_simple, line 351: max(int(CHUNK_SIZE / avg_line_length), 10)
LinesPerChunk(lines) ==
    LET a == (CHUNK_SIZE * Len(lines)) \div ContentLen(lines)
    IN IF a > 10 THEN a ELSE 10

\* the overlap computed from CHUNK_SIZE instead of CHUNK_OVERLAP
OverlapLines_FromChunkSize(lines) ==
    LET b == (CHUNK_SIZE * Len(lines)) \div ContentLen(lines)
    IN IF b > 2 THEN b ELSE 2
\* _chunk_simple, line 352: max(int(CHUNK_OVERLAP / avg_line_length), 2)
OverlapLines(lines) ==
    LET b == (CHUNK_OVERLAP * Len(lines)) \div ContentLen(lines)
    IN IF b > 2 THEN b ELSE 2

\* the iterations of the while loop of lines 354-372, looked at for one more
\* iteration than the content has lines: iteration k + 1 starts at
\* i = k * (lines_per_chunk - overlap_lines) and runs while i < len(lines)
SimpleIterations(lines) ==
    Cardinality({k \in 0 .. Len(lines) :
                    k * (LinesPerChunk(lines) - OverlapLines(lines)) < Len(lines)})

\* lines 356-370: the chunk of the window that starts at i (counted from 0)
Windows(lines, i) ==
    LET end == IF i + LinesPerChunk(lines) < Len(lines)
               THEN i + LinesPerChunk(lines) ELSE Len(lines)
    IN IF TextLines(lines, i + 1, end) = {} THEN {}
       ELSE {Chunk(i + 1, end, "block",
                   Offset(lines, end) + Width(lines[end]) - Offset(lines, i + 1),
                   StripLen(lines, i + 1, end))}

\* _chunk_simple, lines 344-374
ChunkSimple(lines) ==
    UNION {Windows(lines, k * (LinesPerChunk(lines) - OverlapLines(lines))) :
              k \in 0 .. (SimpleIterations(lines) - 1)}

\* _find_python_function_end, lines 208-230, for a def found on line s of
\* lines[1 .. last]: the line the returned offset lies on and the last line
\* of the text before that offset
PythonFunctionEnd(lines, s, last) ==
    LET stop == {t \in (s + 1) .. last :
                    lines[t] # "empty" /\ Indent(lines[t]) <= Indent(lines[s])}
    IN IF stop = {} THEN [line |-> last, upto |-> last]
       ELSE [line |-> Lowest(stop), upto |-> Lowest(stop) - 1]

\* _extract_python_methods, lines 165-206, for the class on lines i .. e
\* (e its last line that is not blank). "^\s+def" matches from the start of
\* the blank lines that precede a def, or from an indented def itself.
PythonMethods(lines, i, e) ==
    LET from(d) == Lowest({s \in (i + 1) .. d :
                              \A t \in s .. (d - 1) : lines[t] = "empty"})
        defs == {d \in (i + 1) .. e :
                    /\ lines[d] \in {"def", "mdef"}
                    /\ lines[d] = "mdef" \/ from(d) < d}
    IN {LET s == from(d)
            end == PythonFunctionEnd(lines, s, e)
        IN Chunk(s, end.line, "method",
                 RstripLen(lines, s, end.upto), StripLen(lines, s, end.upto)) :
        d \in defs}

\* _chunk_python, lines 78-163
ChunkPython(lines) ==
    LET n == Len(lines)
        classes == {i \in 1 .. n : lines[i] = "class"}
        next(i) == {j \in classes : j > i}
        end_line(i) == IF next(i) = {} THEN n ELSE Lowest(next(i))
        upto(i) == IF next(i) = {} THEN n ELSE Lowest(next(i)) - 1
        of_class(i) ==
            IF RstripLen(lines, i, upto(i)) > CHUNK_SIZE * 2
            THEN PythonMethods(lines, i, Highest(TextLines(lines, i, upto(i))))
            ELSE {Chunk(i, end_line(i), "class",
                        RstripLen(lines, i, upto(i)), StripLen(lines, i, upto(i)))}
        functions ==
            {LET end == PythonFunctionEnd(lines, d, n)
             IN Chunk(d, end.line, "function",
                      RstripLen(lines, d, end.upto), StripLen(lines, d, end.upto)) :
             d \in {d \in 1 .. n : lines[d] = "def"}}
        chunks == UNION {of_class(i) : i \in classes}
                      \cup {c \in functions : c.size <= CHUNK_SIZE * 2}
    IN IF chunks = {} THEN ChunkSimple(lines) ELSE chunks

\* the braces of a line: one opened, one closed or none
Brace(k) == CASE k \in {"class", "func"} -> 1 [] k = "close" -> 0 - 1 [] OTHER -> 0

\* the loop of _find_matching_brace, lines 384-394, from line j on with
\* count braces open: the offset returned and the line it lies on
RECURSIVE BraceScan(_, _, _)
BraceScan(lines, j, count) ==
    IF j > Len(lines) THEN [pos |-> ContentLen(lines), line |-> Len(lines)]
    ELSE IF count + Brace(lines[j]) = 0
         THEN [pos |-> Offset(lines, j) + 1, line |-> j]
         ELSE BraceScan(lines, j + 1, count + Brace(lines[j]))

\* _find_matching_brace, lines 376-394, for a declaration on line a
MatchingBrace(lines, a) ==
    LET opens == {j \in a .. Len(lines) : Brace(lines[j]) = 1}
        far == Offset(lines, a) + CHUNK_SIZE
        pos == IF far < ContentLen(lines) THEN far ELSE ContentLen(lines)
    IN IF opens = {} THEN [pos |-> pos, line |-> LineAt(lines, pos)]
       ELSE BraceScan(lines, Lowest(opens) + 1, 1)

\* _chunk_javascript, lines 232-303. The text length of a chunk cut in the
\* middle of a line is taken as its size: strip() finds at most the blank
\* characters at the cut.
ChunkJavascript(lines) ==
    LET n == Len(lines)
        piece(a, type) ==
            LET end == MatchingBrace(lines, a)
                size == end.pos - Offset(lines, a)
                text == StripLen(lines, a, end.line)
            IN Chunk(a, end.line, type, size, IF text < size THEN text ELSE size)
        classes == {piece(a, "class") : a \in {a \in 1 .. n : lines[a] = "class"}}
        functions == {piece(a, "function") :
                         a \in {a \in 1 .. n : lines[a] \in {"func", "arrow"}}}
        chunks == classes \cup {c \in functions : c.size <= CHUNK_SIZE * 2}
    IN IF chunks = {} THEN ChunkSimple(lines) ELSE chunks

\* the loop of _find_ruby_block_end, lines 402-417, from line j on at depth
RECURSIVE RubyScan(_, _, _)
RubyScan(lines, j, depth) ==
    IF j > Len(lines) THEN [pos |-> ContentLen(lines), line |-> Len(lines)]
    ELSE LET d == IF lines[j] \in {"class", "def", "mdef"} THEN depth + 1 ELSE depth
         IN IF lines[j] = "end"
            THEN IF d = 1
                 THEN [pos |-> Offset(lines, j) + Width(lines[j]), line |-> j]
                 ELSE RubyScan(lines, j + 1, d - 1)
            ELSE RubyScan(lines, j + 1, d)

\* _chunk_ruby, lines 305-338
ChunkRuby(lines) ==
    LET chunks ==
            {LET end == RubyScan(lines, a + 1, 1)
             IN Chunk(a, end.line, "class",
                      end.pos - Offset(lines, a), StripLen(lines, a, end.line)) :
             a \in {a \in 1 .. Len(lines) : lines[a] = "class"}}
    IN IF chunks = {} THEN ChunkSimple(lines) ELSE chunks

\* the strategy chunk_file picks by the suffix, lines 57-71
ChunkStrategy(source) ==
    CASE source.ext = "py" -> ChunkPython(source.lines)
      [] source.ext = "js" -> ChunkJavascript(source.lines)
      [] source.ext = "rb" -> ChunkRuby(source.lines)
      [] OTHER -> ChunkSimple(source.lines)

\* chunk_file without the filter of line 74
ChunkerChunkFile_NoFilter(source) ==
    IF ~source.readable THEN {}
    ELSE IF TextLines(source.lines, 1, Len(source.lines)) = {} THEN {}
    ELSE ChunkStrategy(source)
\* chunk_file, lines 38-76
ChunkerChunkFile(source) ==
    IF ~source.readable THEN {}
    ELSE IF TextLines(source.lines, 1, Len(source.lines)) = {} THEN {}
    ELSE {c \in ChunkStrategy(source) : c.text >= MIN_CHUNK_SIZE}

\* the files with suffix e handed to the chunker: every file of at most
\* MaxLines lines in the lines of its language, files of up to MaxBlock lines
\* of plain text, with and without a final newline, and, for "py", a file
\* that cannot be read
Sources(e) ==
    {[ext |-> e, lines |-> l, readable |-> TRUE] :
        l \in SeqsUpTo(Alphabet(e), MaxLines) \ {<<>>}}
      \cup {[ext |-> e, lines |-> [i \in 1 .. n |-> "fat"] \o tail, readable |-> TRUE] :
               n \in 1 .. MaxBlock, tail \in {<<>>, <<"empty">>}}
      \cup {[ext |-> e, lines |-> <<"def", "body">>, readable |-> FALSE] :
               x \in {e} \cap {"py"}}

\* chunk_file reaches _chunk_simple: only that strategy makes "block" chunks,
\* and it makes one from any content that is not blank
FallsBack(source) ==
    /\ source.readable
    /\ TextLines(source.lines, 1, Len(source.lines)) # {}
    /\ \E c \in ChunkStrategy(source) : c.chunk_type = "block"

\* chunk_file(src). The one call of it that can raise, read_text, is inside
\* the try of lines 48-52, so the call returns. iters counts the iterations
\* of the loop of _chunk_simple when the call got there.
ChunkFileCall ==
    /\ ~out.done
    /\ src # NoSource
    /\ out' = [done |-> TRUE, raised |-> FALSE, chunks |-> ChunkerChunkFile(src),
               iters |-> IF FallsBack(src) THEN SimpleIterations(src.lines) ELSE 0]
    /\ UNCHANGED <<src, cacheDisk, ec, op, hist, search, runVars>>

\* a chunker and one file for it
ChunkInit ==
    /\ RunInit
    /\ cacheDisk = [kind |-> "missing", data |-> EmptyCache]
    /\ ec = NewCache
    /\ op = NoOp
    /\ hist = NoHist
    /\ \E e \in Exts : src \in Sources(e)
    /\ out = NotChunked

ChunkNext == ChunkFileCall

ChunkSpec == ChunkInit /\ [][ChunkNext]_vars

\* ------------------------------------------- construction over stored files
\* the record _process_file writes for the file f of RunInitOver
InitialRecord(f) == [mtime |-> 1, size |-> SizeOf(1), hash |-> Digest(1)]

\* metadata.json as an Indexer may find it: absent, not parseable, not
\* readable, or holding the records of some of the project's files
MetaFiles ==
    {[kind |-> k, data |-> EmptyMeta] : k \in {"missing", "corrupt", "unreadable"}}
        \cup {[kind |-> "ok", data |-> [f \in S |-> InitialRecord(f)]] : S \in SUBSET Files}

\* the cache file as an EmbeddingCache may find it
CacheFiles ==
    {[kind |-> k, data |-> EmptyCache] : k \in {"missing", "corrupt", "unreadable"}}
        \cup {[kind |-> "ok", data |-> d] :
                 d \in UNION {[K -> Vectors] : K \in SUBSET {HashContent(x) : x \in Texts}}}

\* no object constructed yet, over any metadata file and any cache file
LoadInit ==
    /\ \E disk \in MetaFiles : RunInitOver(disk)
    /\ cacheDisk \in CacheFiles
    /\ ec = NewCache
    /\ op = NoOp
    /\ hist = NoHist
    /\ src = NoSource
    /\ out = NotChunked

\* the constructors, the cache's save and the first stage of a run
LoadNext ==
    \/ Reopen
    \/ \E o \in SaveOutcomes : Save(o)
    \/ \E frc \in BOOLEAN : StartRun(frc)
    \/ \E f \in Files : WorkerClassify(f)

LoadSpec == LoadInit /\ [][LoadNext]_vars

\* =================================================================== claims
\* the workers whose change check has run in the current run
Classified == {f \in Files : pc = "chunking" /\ wk[f].cls # "none"}
\* the worker of f holds a stored record for f
HasRecord(f) == wk[f].rec # NoRec
\* the file the change check saw has the mtime and size of the record
SameStat(f) ==
    /\ wk[f].obs.exists
    /\ wk[f].obs.mtime = wk[f].rec.mtime
    /\ SizeOf(wk[f].obs.content) = wk[f].rec.size
\* the file the change check read has the content the record was made from
SameContent(f) == wk[f].obs.readable /\ Digest(wk[f].obs.content) = wk[f].rec.hash
\* the record was made from a content other than the file's
OtherContent(f) ==
    \E c \in Contents : c # wk[f].obs.content /\ wk[f].rec.hash = Digest(c)

\* C1: in a non-forced run a file whose content, mtime and size are those of
\* its stored record is classified unchanged, its worker returns (None, None)
\* and no chunk of it enters the run's chunk list.
C1_UnchangedFileYieldsNothing ==
    \A f \in Classified :
        (~force /\ HasRecord(f) /\ SameStat(f) /\ SameContent(f))
            => /\ wk[f].cls = "False"
               /\ wk[f].res = "nothing"
               /\ \A r \in all_chunks : r.file # f

C1_Witness ==
    \E f \in Classified :
        /\ ~force /\ runs = 2 /\ start.meta.kind = "ok"
        /\ HasRecord(f) /\ SameStat(f) /\ SameContent(f)
        /\ wk[f].st = "consumed" /\ stats.files_unchanged > 0

\* C2: in a forced run the change check answers "changed" for every
\* candidate, whatever records are persisted and whatever the file is.
C2_ForcedAlwaysChanged ==
    \A f \in Classified : force => wk[f].cls = "True"

C2_Witness ==
    \E f \in Classified :
        /\ force /\ wk[f].cls = "True"
        /\ metaDisk.kind = "ok" /\ f \in DOMAIN metaDisk.data
        /\ wk[f].obs.exists /\ wk[f].obs.readable
        /\ metaDisk.data[f] = [mtime |-> wk[f].obs.mtime,
                               size |-> SizeOf(wk[f].obs.content),
                               hash |-> Digest(wk[f].obs.content)]

\* C3: in a non-forced run "unchanged" is answered only for a file that has
\* a stored record whose mtime and size equal the file's; a file without a
\* record is answered "changed" (new).
C3_UnchangedOnlyIfStatMatches ==
    \A f \in Classified :
        ~force => /\ wk[f].cls = "False" => (HasRecord(f) /\ SameStat(f))
                  /\ ~HasRecord(f) => wk[f].cls = "True"

C3_Witness ==
    \E f \in Classified :
        /\ ~force /\ HasRecord(f) /\ wk[f].obs.exists
        /\ wk[f].obs.mtime # wk[f].rec.mtime
        /\ SameContent(f)
        /\ wk[f].cls = "True"

\* C4: in a non-forced run a file whose mtime and size equal its record's but
\* whose record was made from another content is answered "changed".
C4_HashDetectsSameStatEdit ==
    \A f \in Classified :
        (~force /\ HasRecord(f) /\ SameStat(f) /\ OtherContent(f))
            => wk[f].cls = "True"

C4_Witness ==
    \E f \in Classified :
        /\ ~force /\ HasRecord(f) /\ SameStat(f) /\ OtherContent(f)
        /\ wk[f].obs.readable
        /\ wk[f].cls = "True"

\* what a non-forced run started now would answer for f
NextRunAnswer(f) == HasFileChanged(FALSE, InitialMetadata(FALSE, metaDisk), f, fs[f])

RowsFor(f) == {r \in BagToSet(table.rows) : r.file = f}
\* "{file_path}:{start_line}-{end_line}"
RowId(r) == <<r.file, r.span[1], r.span[2]>>

\* C6 as stated: the rows stored for a file are exactly the chunks of the
\* content of that file that was indexed last.
C6_NoStaleRows ==
    \A f \in Files : RowsFor(f) # {} => RowsFor(f) = RowsOf(f, indexed[f])

\* C7 as stated: no two rows of the table have the same id.
C7_UniqueRowIds ==
    \A r \in BagToSet(table.rows) :
        /\ CopiesIn(r, table.rows) = 1
        /\ \A q \in BagToSet(table.rows) : RowId(q) = RowId(r) => q = r

\* C8 as stated: when a forced run has ended (its metadata write, if any,
\* having succeeded) the table holds the rows of this run only and the
\* metadata store the records of this run only.
C8_ForcedRunDiscardsPriorState ==
    (pc = "done" /\ force /\ io.meta \in {"none", "ok"}) =>
        /\ table.rows = SetToBag(all_chunks)
        /\ LoadMetadata(metaDisk) = new_metadata

\* C9: a run that ends with no chunks has not called the embedder, has not
\* written the table and has left metadata.json as it was.
C9_NoChunksNoWrites ==
    (pc = "done" /\ all_chunks = {}) =>
        /\ ~io.embedder /\ ~io.store /\ io.meta = "none"
        /\ metaDisk = start.meta
        /\ table = start.table

C9_Witness ==
    /\ pc = "done" /\ all_chunks = {} /\ all_files # {}
    /\ start.meta.kind = "ok" /\ start.table.rows # EmptyBag
    /\ stats.files_unchanged = Cardinality(all_files)
    /\ metaDisk = start.meta

\* C10 as stated: a file whose processing raised in its worker is counted
\* in files_skipped and in neither files_indexed nor files_unchanged.
C10_FailedFileCountedSkipped ==
    LET consumed == {f \in all_files : wk[f].st = "consumed"}
        failed == {f \in consumed : wk[f].err}
    IN /\ stats.files_skipped >= Cardinality(failed)
       /\ stats.files_indexed + stats.files_unchanged <= Cardinality(consumed \ failed)

\* C11 as stated: files_unchanged counts exactly the files of this run whose
\* change check answered "unchanged"; a file answered "changed" (one that
\* yields no chunk included) is never counted in it.
C11_UnchangedCountsUnchangedOnly ==
    LET consumed == {f \in all_files : wk[f].st = "consumed"}
    IN stats.files_unchanged = Cardinality({f \in consumed : wk[f].cls = "False"})

\* the embedding input of a chunk, lines 294-305: its context and content,
\* which are those of the span of the content the chunk was cut from
TextOf(r) == <<r.ver, r.span>>

\* the texts an earlier run embedded and stored
StoredTexts ==
    {TextOf(r) : r \in UNION {RowsOf(f, indexed[f]) : f \in {g \in Files : indexed[g] >= 0}}}

\* C12 as stated: the texts a run sends to the embedder are the cache's
\* misses, so when the embedder has answered (the run is about to store) no
\* text of the batch is one an earlier run already embedded.
C12_CachedTextNotEmbeddedAgain ==
    (pc = "storing" /\ io.embedder) =>
        \A r \in all_chunks : TextOf(r) \notin StoredTexts

\* C13: get(x) returns the vector of the latest put(x, v) made on the cache;
\* for a content that was never put (and not loaded from the cache file) it
\* returns None.
C13_GetReturnsLatestPut ==
    op.name = "get" =>
        IF hist.put[op.content] # None THEN op.ret = hist.put[op.content]
        ELSE HashContent(op.content) \notin hist.loaded => op.ret = None

C13_Witness ==
    /\ op.name = "get" /\ op.ret \in Vectors
    /\ hist.put[op.content] = op.ret
    /\ \E x \in Texts : x # op.content /\ hist.put[x] \notin {None, op.ret}

\* the contents of a batch that the cache did not hold when it was called,
\* in the order of the batch
MissingOf(o) ==
    LET Miss(x) == HashContent(x) \notin DOMAIN o.before.cache
    IN SelectSeq(o.contents, Miss)

\* the position among the missing contents of position i of the batch
RankOf(o, i) ==
    Cardinality({j \in 1 .. i : HashContent(o.contents[j]) \notin DOMAIN o.before.cache})

\* C14: get_or_compute_batch calls the compute function at most once: not
\* at all when every content is cached, otherwise once with the missing
\* contents in the order of the batch; when that call returns one vector
\* per content it was given, the result has one vector per content of the
\* batch, in order: the cached vector, or the one computed for it.
C14_BatchInOrderOneCompute ==
    op.name = "batch" =>
        /\ op.calls = IF MissingOf(op) = <<>> THEN <<>> ELSE <<MissingOf(op)>>
        /\ ~op.raised =>
              /\ Len(op.ret[1]) = Len(op.contents)
              /\ \A i \in 1 .. Len(op.contents) :
                    op.ret[1][i] =
                        IF HashContent(op.contents[i]) \in DOMAIN op.before.cache
                        THEN op.before.cache[HashContent(op.contents[i])]
                        ELSE op.answer.vecs[RankOf(op, i)]

C14_Witness ==
    /\ op.name = "batch" /\ ~op.raised
    /\ Len(op.contents) = 3 /\ Len(MissingOf(op)) = 2
    /\ HashContent(op.contents[1]) \in DOMAIN op.before.cache
    /\ op.ret[1][2] # op.ret[1][3]
    /\ op.ret[1][1] # op.ret[1][2]

\* the lookups of the last call that found, and did not find, their content
HitsOf(o) ==
    IF o.name = "get" THEN (IF o.ret # None THEN 1 ELSE 0)
    ELSE IF o.name = "batch" THEN Len(o.contents) - Len(MissingOf(o))
    ELSE 0
MissesOf(o) ==
    IF o.name = "get" THEN (IF o.ret = None THEN 1 ELSE 0)
    ELSE IF o.name = "batch" THEN Len(MissingOf(o))
    ELSE 0

\* C15: hits and misses are totals over the life of the object: a lookup
\* adds one to exactly one of them, put changes neither, only clear() takes
\* them back, and get_or_compute_batch returns these totals, not the counts
\* of that call.
C15_CountersAreLifetimeTotals ==
    /\ op.name \in {"get", "put", "batch"} =>
          /\ ec.hits = op.before.hits + HitsOf(op)
          /\ ec.misses = op.before.misses + MissesOf(op)
    /\ op.name = "get" => HitsOf(op) + MissesOf(op) = 1
    /\ (op.name = "batch" /\ ~op.raised) =>
          /\ op.ret[2] = op.before.hits + HitsOf(op)
          /\ op.ret[3] = op.before.misses + MissesOf(op)
    /\ op.name = "clear" => ec.hits = 0 /\ ec.misses = 0

C15_Witness ==
    /\ op.name = "batch" /\ ~op.raised
    /\ op.before.hits > 0 /\ op.before.misses > 0
    /\ HitsOf(op) > 0 /\ MissesOf(op) > 0
    /\ op.ret[2] = ec.hits /\ op.ret[3] = ec.misses

\* C16: an EmbeddingCache constructed over a cache file that cannot be
\* read or parsed does not raise and starts empty; an Indexer constructed
\* over such a metadata file starts without records and its run goes on,
\* answering "changed" for every file, as a run over no metadata does.
C16_CorruptStoresStartEmpty ==
    /\ (op.name = "init" /\ cacheDisk.kind \in {"corrupt", "unreadable"}) =>
          /\ ~op.raised
          /\ ec = NewCache
    /\ (runs > 0 /\ start.meta.kind \in {"corrupt", "unreadable"}) =>
          /\ file_metadata = EmptyMeta
          /\ pc # "failed"
          /\ \A f \in Classified : wk[f].cls = "True"

C16_Witness ==
    /\ op.name = "init" /\ cacheDisk.kind = "corrupt" /\ ec = NewCache
    /\ runs > 0 /\ ~force /\ start.meta.kind = "corrupt"
    /\ \A f \in Files : f \in Classified /\ wk[f].cls = "True"

\* C17 as stated: once a run has tried to write metadata.json, the file
\* holds the complete set of records it held when the run began or the
\* complete new set, whatever happened to the write.
C17_MetadataReplacedAtomically ==
    io.meta # "none" =>
        \/ metaDisk = start.meta
        \/ metaDisk = [kind |-> "ok", data |-> file_metadata]

\* C18 as stated: while a run has not finished, so wherever it may be
\* aborted, the table and metadata.json are as they were when it began:
\* never the rows of this run without its records, nor the reverse.
C18_AbortedRunLeavesStores ==
    pc \in {"chunking", "embedding", "storing", "committing", "failed"} =>
        /\ table = start.table
        /\ metaDisk = start.meta

\* C19: a search of a project that has no vector table (never indexed, or
\* indexed only by runs that stored no chunk) answers with the error
\* "no_index" and not with a successful, empty result.
C19_NoIndexIsAnError ==
    (search # NoSearch /\ (~table.exists \/ \A f \in Files : indexed[f] < 0)) =>
        /\ ~search.success
        /\ search.error = "no_index"

C19_Witness ==
    /\ search.error = "no_index"
    /\ runs > 0 /\ pc = "done" /\ stats.files_scanned > 0
    /\ ~table.exists

\* a search after the index directory of an indexed project was removed
C19_WitnessRemoved ==
    /\ search.error = "no_index"
    /\ pc = "idle" /\ runs > 0 /\ start.table.exists

\* the number of lines of a content: a final newline ends the last line
\* rather than starting another one
NumLines(lines) ==
    IF lines[Len(lines)] = "empty" THEN Len(lines) - 1 ELSE Len(lines)

\* C20: every chunk chunk_file returns, whichever strategy made it, has
\* 1 <= start_line <= end_line <= the number of lines of the file.
C20_LineRangesInsideFile ==
    out.done =>
        \A c \in out.chunks :
            /\ 1 <= c.start_line
            /\ c.start_line <= c.end_line
            /\ c.end_line <= NumLines(src.lines)

\* C21: every chunk chunk_file returns has at least MIN_CHUNK_SIZE characters
\* of stripped content, and a file that cannot be read, a blank file and a
\* file shorter than MIN_CHUNK_SIZE give no chunk and no exception.
C21_SmallChunksDropped ==
    out.done =>
        /\ \A c \in out.chunks : c.text >= MIN_CHUNK_SIZE
        /\ (\/ ~src.readable
            \/ StripLen(src.lines, 1, Len(src.lines)) < MIN_CHUNK_SIZE) =>
               (out.chunks = {} /\ ~out.raised)
\* a readable file of several declarations of which chunk_file kept one
\* chunk and dropped another
C21_Witness ==
    /\ out.done
    /\ src.readable
    /\ out.chunks # {}
    /\ ChunkStrategy(src) # out.chunks
\* a file shorter than MIN_CHUNK_SIZE that is not blank was chunked
C21_WitnessShort ==
    /\ out.done
    /\ src.readable
    /\ StripLen(src.lines, 1, Len(src.lines)) \in 1 .. (MIN_CHUNK_SIZE - 1)

\* C22 as stated: in a non-forced run the change check hashes the file only
\* when its mtime or size differs from the record, and a file whose mtime and
\* size both match is answered "unchanged" without being read.
C22_HashOnlyWhenStatDiffers ==
    \A f \in Classified :
        ~force =>
            /\ wk[f].hashed => (HasRecord(f) /\ ~SameStat(f))
            /\ (HasRecord(f) /\ SameStat(f)) => (wk[f].cls = "False" /\ ~wk[f].hashed)

\* C22 amended: in a non-forced run the change check hashes the file exactly
\* when it has a record whose mtime and size both match; a file whose mtime
\* or size differs is answered "changed" without being read, and one whose
\* mtime and size match is answered "unchanged" only if the hash matches too.
C22_HashOnlyWhenStatMatches ==
    \A f \in Classified :
        ~force =>
            /\ wk[f].hashed <=> (HasRecord(f) /\ SameStat(f))
            /\ (HasRecord(f) /\ wk[f].obs.exists /\ ~SameStat(f)) =>
                   (wk[f].cls = "True" /\ ~wk[f].hashed)
            /\ (HasRecord(f) /\ SameStat(f)) =>
                   (wk[f].cls = "False" <=> ComputeFileHash(wk[f].obs) = wk[f].rec.hash)

\* both cases in one non-forced run: a file with another mtime answered
\* without its hash, and a file with matching mtime and size hashed
C22_Witness ==
    /\ ~force
    /\ \E f \in Classified :
           HasRecord(f) /\ wk[f].obs.exists /\ ~SameStat(f) /\ ~wk[f].hashed
    /\ \E f \in Classified :
           HasRecord(f) /\ SameStat(f) /\ wk[f].hashed /\ wk[f].cls = "False"

\* C23: no function, method or class chunk that chunk_file returns has a
\* content of more than 2 * CHUNK_SIZE characters.
C23_NoOversizedDeclaration ==
    out.done =>
        \A c \in out.chunks :
            c.chunk_type \in {"function", "method", "class"} => c.size <= CHUNK_SIZE * 2

\* C24: the record a worker returns was made from the content its chunks
\* were made from, and a file that the next non-forced run would answer
\* "unchanged" has the content its stored rows were computed from.
C24_WorkerSeesOneSnapshot ==
    /\ \A f \in Files :
           wk[f].res = "indexed" =>
               /\ wk[f].meta.hash = Digest(wk[f].rd)
               /\ wk[f].meta.size = SizeOf(wk[f].rd)
    /\ pc = "done" =>
           \A f \in Files :
               (indexed[f] >= 0 /\ NextRunAnswer(f) = "False") =>
                   indexed[f] = fs[f].content

\* the workers whose result the orchestrator has taken
Consumed == {f \in Files : wk[f].st = "consumed"}
\* a step of a worker process: a future advances or gets its result
WorkerStep ==
    \E f \in Files :
        wk'[f] # wk[f] /\ wk'[f].st \in {"changed", "chunked", "returned"}

\* C25: a worker's step leaves the orchestrator's records, chunk list and
\* counters alone; the vector table and metadata.json change only when every
\* worker's result has been taken; and the chunk list, the new records and
\* the counters are determined by the set of results taken so far, whatever
\* the order in which they were taken.
C25_WorkersShareNothing ==
    /\ [][WorkerStep => UNCHANGED <<file_metadata, all_chunks, new_metadata, stats,
                                    table, metaDisk>>]_vars
    /\ [][(table' # table \/ metaDisk' # metaDisk) =>
             \A f \in all_files : wk[f].st = "consumed"]_vars
    /\ [](/\ all_chunks = UNION {RowsOf(f, wk[f].rd) :
                                    f \in {g \in Consumed : wk[g].res = "indexed"}}
          /\ DOMAIN new_metadata = {f \in Consumed : wk[f].res = "indexed"}
          /\ \A f \in DOMAIN new_metadata : new_metadata[f] = wk[f].meta
          /\ stats.files_indexed = Cardinality({f \in Consumed : wk[f].res = "indexed"})
          /\ stats.files_unchanged = Cardinality({f \in Consumed : wk[f].res = "nothing"})
          /\ stats.files_skipped =
                 Cardinality({f \in Consumed : wk[f].res \notin {"indexed", "nothing"}}))
\* a finished run that took the results of two workers, both with chunks,
\* and wrote both stores
C25_Witness ==
    /\ pc = "done"
    /\ io.store /\ io.meta = "ok"
    /\ \A f \in Files : f \in Consumed /\ wk[f].res = "indexed"

\* the number of chunks the workers of the files of S returned
RECURSIVE ChunkCount(_)
ChunkCount(S) ==
    IF S = {} THEN 0
    ELSE LET f == CHOOSE g \in S : TRUE
         IN Cardinality(ChunksOf(wk[f].rd)) + ChunkCount(S \ {f})

\* C26: once the loop over the futures has ended, files_scanned is the number
\* of files found and equals files_indexed + files_unchanged + files_skipped,
\* and chunks_created is the number of chunks of the files counted indexed.
C26_CountersAddUp ==
    pc \in {"embedding", "storing", "committing", "done", "failed"} =>
        /\ stats.files_scanned = Cardinality(all_files)
        /\ stats.files_scanned =
               stats.files_indexed + stats.files_unchanged + stats.files_skipped
        /\ stats.files_indexed = Cardinality({f \in all_files : wk[f].res = "indexed"})
        /\ stats.chunks_created = ChunkCount({f \in all_files : wk[f].res = "indexed"})
\* a finished run with one file indexed and the other one's future raising
C26_Witness ==
    /\ pc = "done"
    /\ stats.files_indexed = 1
    /\ stats.files_skipped = 1
    /\ stats.chunks_created > 0

\* C27: after any sequence of runs, ended or failed, every path that has a
\* record in metadata.json has at least one row in the vector table.
C27_RecordedFilesHaveRows ==
    (pc \in {"idle", "done", "failed"} /\ metaDisk.kind = "ok") =>
        \A f \in DOMAIN metaDisk.data :
            /\ table.exists
            /\ \E r \in BagToSet(table.rows) : r.file = f

\* C28: when compute_fn raised, or returned a list whose length is not the
\* number of missing contents, get_or_compute_batch raised and the mapping of
\* the cache is the one before the call.
C28_FailedBatchAddsNothing ==
    (/\ op.name = "batch"
     /\ op.calls # <<>>
     /\ op.answer.raises \/ Len(op.answer.vecs) # Len(op.calls[1])) =>
        /\ op.raised
        /\ ec.cache = op.before.cache

\* C29: during and after a run that is not forced, every row the table held
\* when the run began is still there, as often as before, and every record
\* metadata.json held then is still there, unchanged unless the run
\* re-indexed its file.
C29_NonForcedRunOnlyAdds ==
    (pc \in {"chunking", "embedding", "storing", "committing", "done", "failed"}
        /\ ~force) =>
        /\ start.table.rows \sqsubseteq table.rows
        /\ start.meta.kind = "ok" =>
               \A f \in DOMAIN start.meta.data :
                   /\ metaDisk.kind = "ok"
                   /\ f \in DOMAIN metaDisk.data
                   /\ f \notin DOMAIN new_metadata =>
                          metaDisk.data[f] = start.meta.data[f]

\* C30: whenever chunk_file ran the fixed-size fallback, the window was
\* longer than the overlap and the loop ended within one iteration per line.
C30_FallbackTerminates ==
    (out.done /\ out.iters > 0) =>
        /\ LinesPerChunk(src.lines) > OverlapLines(src.lines)
        /\ out.iters <= Len(src.lines)
\* a fallback run that needed a second window
C30_Witness ==
    /\ out.done
    /\ out.iters >= 2
    /\ Cardinality(out.chunks) >= 2

TypeOK ==
    /\ fs \in [Files -> FileState]
    /\ pc \in {"idle", "chunking", "embedding", "storing", "committing", "done", "failed"}
    /\ all_files \subseteq Files
    /\ DOMAIN file_metadata \subseteq Files
====
